---- MODULE Spec2Model ----
(***************************************************************************)
(* Model of the spectrum-analyzer facade ESA (src/ESA.py) and of the       *)
(* R&S FSUP driver FSUP50 (src/FSUP50.py).                                 *)
(*                                                                         *)
(* The caller holds one facade.  Every facade method is one action; it     *)
(* forwards to the driver, the driver talks to the transport, and the      *)
(* outcome of the call (value returned or exception raised, the lines      *)
(* written to the transport, the driver calls made) is recorded in `last`. *)
(* The driver handle is public (ESA.devh), so the driver's own methods are *)
(* actions too.                                                            *)
(*                                                                         *)
(* The Instrument base class, the validators and the N9030A driver are     *)
(* imported by the sources but are not part of them; they are modelled     *)
(* from the specification and marked so.                                   *)
(***************************************************************************)
EXTENDS Integers, Sequences, FiniteSets, TLC

VARIABLES
    facade,     \* the facade object the caller holds (or none) and its params
    devh,       \* the driver instance (the facade's device handle)
    pending,    \* replies the instrument has produced and nobody has read
    inst,       \* instrument side: value text carried by the last set command
    last,       \* outcome of the most recent call
    prev,       \* outcome of the call before it
    nops        \* number of calls made so far

vars == <<facade, devh, pending, inst, last, prev, nops>>

(***************************************************************************)
(* Bounds of the model.                                                    *)
(***************************************************************************)
MaxOps == 3

(***************************************************************************)
(* Numbers.  A Python float is modelled as a fixed-point decimal with      *)
(* seven fractional digits, kept in three limbs so that 50e9 fits:         *)
(*   value = g * 10^9 + u + f * 10^-7,  0 <= u < 10^9,  0 <= f < 10^7.     *)
(* A negative value has a negative g (floor representation).               *)
(***************************************************************************)
Giga == 10^9
MicroUnits == 10^6

Num(g, u, f) == [g |-> g, u |-> u, f |-> f]
Hz(n) == Num(0, n, 0)

NumLE(a, b) ==
    \/ a.g < b.g
    \/ a.g = b.g /\ a.u < b.u
    \/ a.g = b.g /\ a.u = b.u /\ a.f <= b.f

(* The text of a number with six fractional digits: g, u and micro-units. *)
Dec(g, u, m) == [g |-> g, u |-> u, m |-> m]

(* "%f" % v: fixed-point text with six digits after the point, rounded to  *)
(* the nearest micro-unit (the sampled values carry no exact tie).         *)
RoundMicro(f) == (f \div 10) + (IF (f % 10) >= 5 THEN 1 ELSE 0)
CarryHz(g, u0, m) == Dec(g + (u0 \div Giga), u0 % Giga, m)
CarryMicro(g, u, m0) == CarryHz(g, u + (m0 \div MicroUnits), m0 % MicroUnits)
FormatF(v) == CarryMicro(v.g, v.u, RoundMicro(v.f))

(* float(text) *)
ParseFloat(t) == Num(t.g, t.u, t.m * 10)

(***************************************************************************)
(* Values returned by a call: None, a float, the raw text of a reply, or a *)
(* bound method object.                                                    *)
(***************************************************************************)
Res(kind, num, text) == [kind |-> kind, num |-> num, text |-> text]
None == Res("None", Hz(0), Dec(0, 0, 0))
FloatRes(n) == Res("float", n, Dec(0, 0, 0))
TextRes(t) == Res("str", Hz(0), t)
BoundMethod == Res("method", Hz(0), Dec(0, 0, 0))

(***************************************************************************)
(* Command lines.  A line is its literal head, the formatted values        *)
(* substituted into it, and the literal tail after the substitution.       *)
(* A template is its head, the number of %f conversions, and its tail.     *)
(***************************************************************************)
Cmd(head, args, tail) == [head |-> head, args |-> args, tail |-> tail]
Plain(s) == Cmd(s, <<>>, "")
Template(head, slots, tail) == [head |-> head, slots |-> slots, tail |-> tail]

(* template % value, with value a single number: one conversion consumes   *)
(* it; a template with no conversion raises TypeError ("not all arguments  *)
(* converted during string formatting").                                   *)
PyFormat(template, value) ==
    IF template.slots = 1
    THEN [ok |-> TRUE, cmd |-> Cmd(template.head, <<FormatF(value)>>, template.tail)]
    ELSE [ok |-> FALSE, cmd |-> Plain(template.head)]

(***************************************************************************)
(* Command strings of the FSUP dialect.                                    *)
(***************************************************************************)
FSUP50_RESET == "*RST\n"
FSUP50_WAIT_TO_COMPLETE == "*OPC?\n"
FSUP50_START_FREQUENCY_SET == Template("FREQ:STAR ", 1, "")
FSUP50_START_FREQUENCY_GET == "FREQ:STAR?"
FSUP50_STOP_FREQUENCY_SET == Template("FREQ:STOP ", 1, "")
FSUP50_STOP_FREQUENCY_GET == "FREQ:STOP?"
FSUP50_VIDEO_BW_SET == Template("BAND:VID ", 1, "Hz")
FSUP50_VIDEO_BW_GET == "BAND:VID?"
FSUP50_RESOLUTION_BW_SET == Template("BAND:AUTO OFF", 0, "")
FSUP50_RESOLUTION_BW_GET == "BAND?"
FSUP50_CENTER_FREQUENCY_SET == Template("FREQ:CENT ", 1, "")
FSUP50_SPAN_FREQUENCY_SET == Template("FREQ:SPAN ", 1, "")
FSUP50_MARKER_FREQUENCY_GET == "CALC:MARK:COUN ON"
FSUP50_MARKER_AMPLITUDE_GET == "CALC:MARK:Y?"
FSUP50_SWEEPTIME_GET == "SWE:TIME?"
FSUP50_SWEEP_SINGLE_SET == "INIT:CONT OFF"
FSUP50_MOVE_MARKER_PEAK == "CALC:MARK:MAX"

(***************************************************************************)
(* The instrument behind the transport: it keeps the value text carried by *)
(* the last set command of each attribute and answers each query line with *)
(* one reply line.  A line that is not a query produces no reply.          *)
(***************************************************************************)
Attributes == {"start_frequency", "stop_frequency", "video_bw", "resolution_bw"}
OpcReply == Dec(0, 1, 0)
MarkerReply == Dec(0, 7, 0)
SweepReply == Dec(0, 2, 0)
IDENTITY_QUERY == "*IDN?"

Transport(pend, ins) == [pending |-> pend, inst |-> ins]

InstrumentReply(ins, cmd) ==
    CASE cmd.head = "*OPC?\n"       -> <<OpcReply>>
      [] cmd.head = "FREQ:STAR?"    -> <<ins["start_frequency"]>>
      [] cmd.head = "FREQ:STOP?"    -> <<ins["stop_frequency"]>>
      [] cmd.head = "BAND:VID?"     -> <<ins["video_bw"]>>
      [] cmd.head = "BAND?"         -> <<ins["resolution_bw"]>>
      [] cmd.head = "CALC:MARK:Y?"  -> <<MarkerReply>>
      [] cmd.head = "SWE:TIME?"     -> <<SweepReply>>
      [] OTHER                      -> <<>>

InstrumentStore(ins, cmd) ==
    IF cmd.args = <<>> THEN ins
    ELSE CASE cmd.head = "FREQ:STAR " -> [ins EXCEPT !["start_frequency"] = cmd.args[1]]
           [] cmd.head = "FREQ:STOP " -> [ins EXCEPT !["stop_frequency"] = cmd.args[1]]
           [] cmd.head = "BAND:VID "  -> [ins EXCEPT !["video_bw"] = cmd.args[1]]
           [] cmd.head = "BAND "      -> [ins EXCEPT !["resolution_bw"] = cmd.args[1]]
           [] OTHER                   -> ins

Deliver(t, cmd) ==
    Transport(t.pending \o InstrumentReply(t.inst, cmd), InstrumentStore(t.inst, cmd))

(***************************************************************************)
(* The effect of a call on the driver: how it ended ("ok" or the name of   *)
(* the exception raised), the value returned, the lines written to the     *)
(* transport, and the transport afterwards.                                *)
(***************************************************************************)
Eff(out, res, sent, t) == [out |-> out, res |-> res, sent |-> sent, t |-> t]
Raise(exc, t) == Eff(exc, None, <<>>, t)
Return(res, t) == Eff("ok", res, <<>>, t)

(* the effect of `first` followed by `second`, which started on the        *)
(* transport `first` left                                                  *)
After(first, second) == [second EXCEPT !.sent = first.sent \o second.sent]

(***************************************************************************)
(* Instrument base class.                                                  *)
(***************************************************************************)
(* write(command): the line goes to the transport verbatim, nothing is read *)
Instrument_write(t, cmd) == Eff("ok", None, <<cmd>>, Deliver(t, cmd))

(* ask(command): write the line, then read exactly one reply line; a read  *)
(* with no reply pending ends in the transport's timeout                   *)
Instrument_read(cmd, w) ==
    IF w.pending = <<>>
    THEN Eff("CommunicationError", None, <<cmd>>, w)
    ELSE Eff("ok", TextRes(Head(w.pending)), <<cmd>>, Transport(Tail(w.pending), w.inst))

Instrument_ask(t, cmd) == Instrument_read(cmd, Deliver(t, cmd))

(* time.sleep(secs) accepts a number only *)
sleep(secs) == IF secs \in STRING THEN "TypeError" ELSE "ok"

(***************************************************************************)
(* Validators.                                                             *)
(***************************************************************************)
strict_range(value, values) ==
    IF values = <<>> \/ (NumLE(values[1], value) /\ NumLE(value, values[2]))
    THEN [ok |-> TRUE, value |-> value]
    ELSE [ok |-> FALSE, value |-> value]

truncated_range(value, values) ==
    IF values = <<>> THEN [ok |-> TRUE, value |-> value]
    ELSE IF ~NumLE(values[1], value) THEN [ok |-> TRUE, value |-> values[1]]
    ELSE IF ~NumLE(value, values[2]) THEN [ok |-> TRUE, value |-> values[2]]
    ELSE [ok |-> TRUE, value |-> value]

Validate(validator, value, values) ==
    IF validator = "strict_range" THEN strict_range(value, values)
    ELSE truncated_range(value, values)

(***************************************************************************)
(* FSUP50: reset and completion wait.                                      *)
(***************************************************************************)
(* wait_to_complete: the query line is written; the method returns None *)
wait_to_complete_return(w) ==
    IF w.out # "ok" THEN w ELSE After(w, Return(None, w.t))

FSUP50_wait_to_complete(t) ==
    wait_to_complete_return(Instrument_write(t, Plain(FSUP50_WAIT_TO_COMPLETE)))

(* rst: after the reset line, sleep(FSUP50_WAIT_TO_COMPLETE), then the     *)
(* completion wait, whose value is returned                                *)
rst_after_write(w, slept) ==
    IF w.out # "ok" THEN w
    ELSE IF slept # "ok" THEN After(w, Raise(slept, w.t))
    ELSE After(w, FSUP50_wait_to_complete(w.t))

FSUP50_rst(t) ==
    rst_after_write(Instrument_write(t, Plain(FSUP50_RESET)),
                    sleep(FSUP50_WAIT_TO_COMPLETE))

(***************************************************************************)
(* Instrument.control: a property bound to a get command, a set command    *)
(* template, a validator, its legal values and the set_wait flag.          *)
(***************************************************************************)
Control(get_command, set_command, validator, values, set_wait) ==
    [get_command |-> get_command, set_command |-> set_command,
     validator |-> validator, values |-> values, set_wait |-> set_wait]

(* Set path: validate, format the set template with the validated value,   *)
(* write the line, then the completion wait of the instrument if set_wait. *)
control_set_written(d, w) ==
    IF w.out # "ok" THEN w
    ELSE IF d.set_wait THEN After(w, FSUP50_wait_to_complete(w.t))
    ELSE w

control_set_formatted(t, d, c) ==
    IF ~c.ok THEN Raise("TypeError", t)
    ELSE control_set_written(d, Instrument_write(t, c.cmd))

control_set_validated(t, d, v) ==
    IF ~v.ok THEN Raise("ValidationError", t)
    ELSE control_set_formatted(t, d, PyFormat(d.set_command, v.value))

control_set(t, d, value) ==
    control_set_validated(t, d, Validate(d.validator, value, d.values))

(* Get path: ask the get command, parse the reply text as a float. *)
control_get_parsed(a) ==
    IF a.out # "ok" THEN a
    ELSE [a EXCEPT !.res = FloatRes(ParseFloat(a.res.text))]

control_get(t, d) == control_get_parsed(Instrument_ask(t, Plain(d.get_command)))

(***************************************************************************)
(* FSUP50: the declared properties and their accessors.                    *)
(***************************************************************************)
GHz50 == Num(50, 0, 0)

start_frequency ==
    Control(FSUP50_START_FREQUENCY_GET, FSUP50_START_FREQUENCY_SET,
            "strict_range", <<Hz(0), GHz50>>, TRUE)

stop_frequency ==
    Control(FSUP50_STOP_FREQUENCY_GET, FSUP50_STOP_FREQUENCY_SET,
            "strict_range", <<>>, TRUE)

(* video_bw declared with the clamping validator instead of the strict one *)
video_bw_truncated ==
    Control(FSUP50_VIDEO_BW_GET, FSUP50_VIDEO_BW_SET,
            "truncated_range", <<Hz(1), Hz(10)>>, TRUE)

video_bw ==
    Control(FSUP50_VIDEO_BW_GET, FSUP50_VIDEO_BW_SET,
            "strict_range", <<Hz(1), Hz(10)>>, TRUE)

resolution_bw ==
    Control(FSUP50_RESOLUTION_BW_GET, FSUP50_RESOLUTION_BW_SET,
            "strict_range", <<Hz(10), Hz(50)>>, TRUE)

FSUP50_set_start_frequency(t, freq) == control_set(t, start_frequency, freq)
FSUP50_get_start_frequency(t) == control_get(t, start_frequency)
FSUP50_set_stop_frequency(t, freq) == control_set(t, stop_frequency, freq)
FSUP50_get_stop_frequency(t) == control_get(t, stop_frequency)
FSUP50_set_video_bw(t, bw) == control_set(t, video_bw, bw)
FSUP50_get_video_bw(t) == control_get(t, video_bw)
FSUP50_set_resolution_bw(t, bw) == control_set(t, resolution_bw, bw)
FSUP50_get_resolution_bw(t) == control_get(t, resolution_bw)

(***************************************************************************)
(* FSUP50: the commands written by hand.                                   *)
(***************************************************************************)
write_formatted(t, c) ==
    IF ~c.ok THEN Raise("TypeError", t) ELSE Instrument_write(t, c.cmd)

FSUP50_set_center_frequency(t, freq) ==
    write_formatted(t, PyFormat(FSUP50_CENTER_FREQUENCY_SET, freq))

FSUP50_set_span_frequency(t, span) ==
    write_formatted(t, PyFormat(FSUP50_SPAN_FREQUENCY_SET, span))

FSUP50_get_marker_frequency(t) == Instrument_ask(t, Plain(FSUP50_MARKER_FREQUENCY_GET))
FSUP50_get_marker_amplitude(t) == Instrument_ask(t, Plain(FSUP50_MARKER_AMPLITUDE_GET))
FSUP50_get_sweeptime(t) == Instrument_ask(t, Plain(FSUP50_SWEEPTIME_GET))
FSUP50_set_sweep_single(t) == Instrument_write(t, Plain(FSUP50_SWEEP_SINGLE_SET))
FSUP50_set_move_marker_peak(t) == Instrument_write(t, Plain(FSUP50_MOVE_MARKER_PEAK))

(***************************************************************************)
(* The methods of an FSUP50 instance and the number of arguments each      *)
(* takes besides self.  The base class adds write and ask, to which the    *)
(* facade never forwards.                                                  *)
(***************************************************************************)
FSUP50_arity ==
    [rst |-> 0, wait_to_complete |-> 0,
     set_start_frequency |-> 1, get_start_frequency |-> 0,
     set_stop_frequency |-> 1, get_stop_frequency |-> 0,
     set_video_bw |-> 1, get_video_bw |-> 0,
     set_resolution_bw |-> 1, get_resolution_bw |-> 0,
     set_center_frequency |-> 1, set_span_frequency |-> 1,
     get_marker_frequency |-> 0, get_marker_amplitude |-> 0,
     get_sweeptime |-> 0, set_sweep_single |-> 0, set_move_marker_peak |-> 0]

FSUP50_body(t, method, args) ==
    CASE method = "rst"                  -> FSUP50_rst(t)
      [] method = "wait_to_complete"     -> FSUP50_wait_to_complete(t)
      [] method = "set_start_frequency"  -> FSUP50_set_start_frequency(t, args[1])
      [] method = "get_start_frequency"  -> FSUP50_get_start_frequency(t)
      [] method = "set_stop_frequency"   -> FSUP50_set_stop_frequency(t, args[1])
      [] method = "get_stop_frequency"   -> FSUP50_get_stop_frequency(t)
      [] method = "set_video_bw"         -> FSUP50_set_video_bw(t, args[1])
      [] method = "get_video_bw"         -> FSUP50_get_video_bw(t)
      [] method = "set_resolution_bw"    -> FSUP50_set_resolution_bw(t, args[1])
      [] method = "get_resolution_bw"    -> FSUP50_get_resolution_bw(t)
      [] method = "set_center_frequency" -> FSUP50_set_center_frequency(t, args[1])
      [] method = "set_span_frequency"   -> FSUP50_set_span_frequency(t, args[1])
      [] method = "get_marker_frequency" -> FSUP50_get_marker_frequency(t)
      [] method = "get_marker_amplitude" -> FSUP50_get_marker_amplitude(t)
      [] method = "get_sweeptime"        -> FSUP50_get_sweeptime(t)
      [] method = "set_sweep_single"     -> FSUP50_set_sweep_single(t)
      [] method = "set_move_marker_peak" -> FSUP50_set_move_marker_peak(t)

(* devh.method(args) on an FSUP50: a name the instance does not have      *)
(* raises AttributeError, a wrong number of arguments raises TypeError,    *)
(* both before any line of the method runs.                                *)
FSUP50_call(t, method, args) ==
    IF method \notin DOMAIN FSUP50_arity THEN Raise("AttributeError", t)
    ELSE IF Len(args) # FSUP50_arity[method] THEN Raise("TypeError", t)
    ELSE FSUP50_body(t, method, args)

(* devh.method(args) on an N9030A: the driver records the call and        *)
(* answers with its own reading.                                           *)
N9030AReading == Dec(0, 9, 0)
N9030A_call(t, method, args) == Return(TextRes(N9030AReading), t)

(***************************************************************************)
(* Construction.  The identity reply is a line of characters; the driver   *)
(* splits it at the commas and picks the fields by index.                  *)
(***************************************************************************)
FirstIndex(s, sep) ==
    CHOOSE k \in 1..Len(s) : s[k] = sep /\ \A j \in 1..(k - 1) : s[j] # sep

RECURSIVE split(_, _)
split_at(s, sep, i) ==
    <<SubSeq(s, 1, i - 1)>> \o split(SubSeq(s, i + 1, Len(s)), sep)

split(s, sep) ==
    IF \A i \in 1..Len(s) : s[i] # sep THEN <<s>>
    ELSE split_at(s, sep, FirstIndex(s, sep))

NoInstance ==
    [driver |-> "none", id |-> <<>>,
     model |-> <<>>, vendor |-> <<>>, serial |-> <<>>, fw |-> <<>>]

Made(out, sent, self) == [out |-> out, sent |-> sent, self |-> self]

(* Instrument.__init__: one identity query; the reply is kept as self.id *)
Instrument_init(driver, reply) ==
    Made("ok", <<Plain(IDENTITY_QUERY)>>,
         [NoInstance EXCEPT !.driver = driver, !.id = reply])

(* self.<attr> = self.id.split(",")[index], one assignment after the other; *)
(* an index past the last field raises IndexError and ends __init__, and   *)
(* the object under construction never reaches the caller                  *)
RECURSIVE AssignFields(_, _)
AssignField(base, fields, attr, index, rest) ==
    IF index >= Len(fields) THEN Made("IndexError", base.sent, NoInstance)
    ELSE AssignFields([base EXCEPT !.self[attr] = fields[index + 1]], rest)

AssignFields(base, todo) ==
    IF todo = <<>> THEN base
    ELSE AssignField(base, split(base.self.id, ","), Head(todo)[1], Head(todo)[2],
                     Tail(todo))

FSUP50_init(reply) ==
    AssignFields(Instrument_init("FSUP50", reply),
                 << <<"model", 1>>, <<"vendor", 0>>, <<"serial", 2>>, <<"fw", 3>> >>)

(* N9030A.__init__: the identity fields in order; fewer than four fields   *)
(* fail the construction                                                   *)
N9030A_fields(base, fields) ==
    IF Len(fields) < 4 THEN Made("ParseError", base.sent, NoInstance)
    ELSE [base EXCEPT !.self.vendor = fields[1], !.self.model = fields[2],
                      !.self.serial = fields[3], !.self.fw = fields[4]]

N9030A_init(reply) == N9030A_fields(Instrument_init("N9030A", reply), split(reply, ","))

(* ESA.__init__: the driver named by params["devicedriver"] is built; any  *)
(* exception inside the try block, the NotImplementedError of an unknown   *)
(* name included, is replaced by Exception("ImportError").                 *)
ESA_except(made) ==
    IF made.out = "ok" THEN made ELSE [made EXCEPT !.out = "Exception"]

ESA_init(params, reply) ==
    ESA_except(IF params.devicedriver = "FSUP50" THEN FSUP50_init(reply)
               ELSE IF params.devicedriver = "N9030A" THEN N9030A_init(reply)
               ELSE Made("NotImplementedError", <<>>, NoInstance))

(***************************************************************************)
(* The facade's methods.  self is the facade: its params and its device    *)
(* handle.  The effect of a facade method adds the driver calls it made,   *)
(* each with its arguments and its outcome.                                *)
(***************************************************************************)
(* entered: the call got past the call boundary, that is, the instance   *)
(* has the method and the method takes that many arguments                 *)
Entered(self, method, args) ==
    \/ self.devh.driver # "FSUP50"
    \/ method \in DOMAIN FSUP50_arity /\ Len(args) = FSUP50_arity[method]

CallRec(method, args, entered, out, res) ==
    [method |-> method, args |-> args, entered |-> entered, out |-> out, res |-> res]

(* self.devh.method(args), the value passed on with `return` *)
Forwarded(method, args, entered, e) ==
    [out |-> e.out, res |-> e.res, sent |-> e.sent, t |-> e.t,
     calls |-> <<CallRec(method, args, entered, e.out, e.res)>>]

Forward(self, t, method, args) ==
    Forwarded(method, args, Entered(self, method, args),
              IF self.devh.driver = "FSUP50" THEN FSUP50_call(t, method, args)
              ELSE N9030A_call(t, method, args))

(* the same call in a method with no `return`: the caller gets None *)
ForwardNoReturn(self, t, method, args) ==
    [Forward(self, t, method, args) EXCEPT !.res = None]

(* self.devh.method without the call: the bound method object *)
Attribute(self, t, method) ==
    IF self.devh.driver = "FSUP50" /\ method \notin DOMAIN FSUP50_arity
    THEN [out |-> "AttributeError", res |-> None, sent |-> <<>>, t |-> t, calls |-> <<>>]
    ELSE [out |-> "ok", res |-> BoundMethod, sent |-> <<>>, t |-> t, calls |-> <<>>]

ESA_reset(self, t) == ForwardNoReturn(self, t, "rst", <<>>)
ESA_wait_to_complete(self, t) == ForwardNoReturn(self, t, "wait_busy", <<>>)
ESA_InitDevice(self, t) == ForwardNoReturn(self, t, "set_start_frequency", <<Hz(10)>>)
ESA_set_start_frequency(self, t, freq) ==
    ForwardNoReturn(self, t, "set_start_frequency", <<freq>>)
ESA_get_start_frequency(self, t) == Forward(self, t, "get_start_frequency", <<>>)
ESA_set_stop_frequency(self, t, freq) ==
    ForwardNoReturn(self, t, "set_stop_frequency", <<freq>>)
ESA_get_stop_frequency(self, t) == Forward(self, t, "get_stop_frequency", <<>>)
ESA_set_video_bw(self, t, bw) == ForwardNoReturn(self, t, "set_video_bw", <<bw>>)
ESA_get_video_bw(self, t) == Forward(self, t, "get_video_bw", <<>>)
ESA_set_resolution_bw(self, t, bw) ==
    ForwardNoReturn(self, t, "set_resolution_bw", <<bw>>)
ESA_get_resolution_bw(self, t) == Attribute(self, t, "get_resolution_bw")
ESA_set_center_frequency(self, t, freq) ==
    ForwardNoReturn(self, t, "set_center_frequency", <<freq>>)
ESA_get_center_frequency(self, t) == Forward(self, t, "get_center_frequency", <<>>)
ESA_set_span_frequency(self, t, span) ==
    ForwardNoReturn(self, t, "set_span_frequency", <<span>>)
ESA_get_marker_frequency(self, t) == Forward(self, t, "get_marker_frequency", <<>>)

(* get_marker_amplitude without the branch on the driver name *)
ESA_get_marker_amplitude_unbranched(self, t, marker) ==
    Forward(self, t, "get_marker_amplitude", <<marker>>)

ESA_get_marker_amplitude(self, t, marker) ==
    IF self.params.devicedriver = "FSUP50"
    THEN Forward(self, t, "get_marker_amplitude", <<>>)
    ELSE Forward(self, t, "get_marker_amplitude", <<marker>>)

ESA_get_sweeptime(self, t) == Forward(self, t, "get_sweeptime", <<>>)
ESA_set_sweep_single(self, t, value) ==
    ForwardNoReturn(self, t, "set_sweep_single", <<value>>)

ESA_set_move_marker_peak(self, t, marker) ==
    IF self.params.devicedriver = "FSUP50"
    THEN ForwardNoReturn(self, t, "set_move_marker_peak", <<>>)
    ELSE ForwardNoReturn(self, t, "set_move_marker_peak", <<marker>>)

(***************************************************************************)
(* Inputs.                                                                 *)
(***************************************************************************)
Neg1 == Num(-1, Giga - 1, 0)
Values ==
    { Neg1, Hz(0), Hz(10), Num(0, 10, 3), Hz(51), GHz50, Num(50, 1, 0) }
Markers == { Hz(1), Hz(2) }
Drivers == { "FSUP50", "N9030A", "UnknownModel" }
IdReplies ==
    { <<"V", ",", "M", ",", "S", ",", "1">>,
      <<"V", ",", "M", ",", "S", ",", "1", ",", "x">>,
      <<"V", ",", "M", ",", "S">>,
      <<"V", ",", "M">>,
      <<"V">> }

(***************************************************************************)
(* The state machine.                                                      *)
(***************************************************************************)
NoParams == [devicedriver |-> "", label |-> ""]
ZeroText == Dec(0, 0, 0)

(* what the caller saw of a call: the object it was made on, the method,  *)
(* its arguments, how it ended, the value returned, and what it did        *)
Outcome(on, op, args, out, res, sent, calls) ==
    [on |-> on, op |-> op, args |-> args, out |-> out, res |-> res,
     sent |-> sent, calls |-> calls]

Init ==
    /\ facade = [state |-> "none", params |-> NoParams]
    /\ devh = NoInstance
    /\ pending = <<>>
    /\ inst = [a \in Attributes |-> ZeroText]
    /\ last = Outcome("none", "none", <<>>, "ok", None, <<>>, <<>>)
    /\ prev = Outcome("none", "none", <<>>, "ok", None, <<>>, <<>>)
    /\ nops = 0

Self == [params |-> facade.params, devh |-> devh]
Now == Transport(pending, inst)

(* a facade call returns or raises: its outcome is noted, the transport    *)
(* is left as the call left it                                             *)
FacadeDone(op, args, effect) ==
    /\ facade.state = "ready"
    /\ nops < MaxOps
    /\ nops' = nops + 1
    /\ \E e \in {effect} :
           /\ pending' = e.t.pending
           /\ inst' = e.t.inst
           /\ last' = Outcome("ESA", op, args, e.out, e.res, e.sent, e.calls)
    /\ prev' = last
    /\ UNCHANGED <<facade, devh>>

(* a call on the driver itself *)
DriverDone(op, args, effect) ==
    /\ devh.driver = "FSUP50"
    /\ nops < MaxOps
    /\ nops' = nops + 1
    /\ \E e \in {effect} :
           /\ pending' = e.t.pending
           /\ inst' = e.t.inst
           /\ last' = Outcome("FSUP50", op, args, e.out, e.res, e.sent, <<>>)
    /\ prev' = last
    /\ UNCHANGED <<facade, devh>>

(* ESA(resource_name, devicedriver=..., label=...) *)
NewESA ==
    \E name \in Drivers, reply \in IdReplies :
        \E made \in {ESA_init([devicedriver |-> name, label |-> "ESA"], reply)} :
            /\ facade.state = "none" /\ devh.driver = "none"
            /\ nops < MaxOps
            /\ nops' = nops + 1
            /\ facade' = IF made.out = "ok"
                         THEN [state  |-> "ready",
                               params |-> [devicedriver |-> name, label |-> "ESA"]]
                         ELSE facade
            /\ devh' = made.self
            /\ prev' = last
            /\ last' = Outcome("ESA", "__init__", <<name, reply>>, made.out, None,
                               made.sent, <<>>)
            /\ UNCHANGED <<pending, inst>>

(* FSUP50(resource_name) built by the caller itself *)
NewFSUP50 ==
    \E reply \in IdReplies :
        \E made \in {FSUP50_init(reply)} :
            /\ facade.state = "none" /\ devh.driver = "none"
            /\ nops < MaxOps
            /\ nops' = nops + 1
            /\ devh' = made.self
            /\ prev' = last
            /\ last' = Outcome("FSUP50", "__init__", <<reply>>, made.out, None,
                               made.sent, <<>>)
            /\ UNCHANGED <<facade, pending, inst>>

Reset == FacadeDone("reset", <<>>, ESA_reset(Self, Now))
WaitToComplete == FacadeDone("wait_to_complete", <<>>, ESA_wait_to_complete(Self, Now))
InitDevice == FacadeDone("InitDevice", <<>>, ESA_InitDevice(Self, Now))
SetStartFrequency ==
    \E v \in Values :
        FacadeDone("set_start_frequency", <<v>>, ESA_set_start_frequency(Self, Now, v))
GetStartFrequency ==
    FacadeDone("get_start_frequency", <<>>, ESA_get_start_frequency(Self, Now))
SetStopFrequency ==
    \E v \in Values :
        FacadeDone("set_stop_frequency", <<v>>, ESA_set_stop_frequency(Self, Now, v))
GetStopFrequency ==
    FacadeDone("get_stop_frequency", <<>>, ESA_get_stop_frequency(Self, Now))
SetVideoBw ==
    \E v \in Values :
        FacadeDone("set_video_bw", <<v>>, ESA_set_video_bw(Self, Now, v))
GetVideoBw == FacadeDone("get_video_bw", <<>>, ESA_get_video_bw(Self, Now))
SetResolutionBw ==
    \E v \in Values :
        FacadeDone("set_resolution_bw", <<v>>, ESA_set_resolution_bw(Self, Now, v))
GetResolutionBw ==
    FacadeDone("get_resolution_bw", <<>>, ESA_get_resolution_bw(Self, Now))
SetCenterFrequency ==
    \E v \in Values :
        FacadeDone("set_center_frequency", <<v>>, ESA_set_center_frequency(Self, Now, v))
GetCenterFrequency ==
    FacadeDone("get_center_frequency", <<>>, ESA_get_center_frequency(Self, Now))
SetSpanFrequency ==
    \E v \in Values :
        FacadeDone("set_span_frequency", <<v>>, ESA_set_span_frequency(Self, Now, v))
GetMarkerFrequency ==
    FacadeDone("get_marker_frequency", <<>>, ESA_get_marker_frequency(Self, Now))
GetMarkerAmplitude ==
    \E m \in Markers :
        FacadeDone("get_marker_amplitude", <<m>>, ESA_get_marker_amplitude(Self, Now, m))
GetSweeptime == FacadeDone("get_sweeptime", <<>>, ESA_get_sweeptime(Self, Now))
SetSweepSingle ==
    \E v \in Markers :
        FacadeDone("set_sweep_single", <<v>>, ESA_set_sweep_single(Self, Now, v))
SetMoveMarkerPeak ==
    \E m \in Markers :
        FacadeDone("set_move_marker_peak", <<m>>, ESA_set_move_marker_peak(Self, Now, m))

(* the driver's own methods, called on the device handle *)
DriverMethods0 ==
    { "rst", "wait_to_complete", "get_start_frequency", "get_stop_frequency",
      "get_video_bw", "get_resolution_bw", "set_sweep_single" }
DriverMethods1 ==
    { "set_start_frequency", "set_stop_frequency", "set_video_bw", "set_resolution_bw" }

DriverCall0 ==
    \E m \in DriverMethods0 : DriverDone(m, <<>>, FSUP50_call(Now, m, <<>>))
DriverCall1 ==
    \E m \in DriverMethods1, v \in Values : DriverDone(m, <<v>>, FSUP50_call(Now, m, <<v>>))

Next ==
    \/ NewESA \/ NewFSUP50
    \/ Reset \/ WaitToComplete \/ InitDevice
    \/ SetStartFrequency \/ GetStartFrequency
    \/ SetStopFrequency \/ GetStopFrequency
    \/ SetVideoBw \/ GetVideoBw
    \/ SetResolutionBw \/ GetResolutionBw
    \/ SetCenterFrequency \/ GetCenterFrequency \/ SetSpanFrequency
    \/ GetMarkerFrequency \/ GetMarkerAmplitude \/ GetSweeptime
    \/ SetSweepSingle \/ SetMoveMarkerPeak
    \/ DriverCall0 \/ DriverCall1

Spec == Init /\ [][Next]_vars

(***************************************************************************)
(* Properties.                                                             *)
(***************************************************************************)
OnFSUP50 == devh.driver = "FSUP50"
InRange(v, lo, hi) == NumLE(lo, v) /\ NumLE(v, hi)
RstThenOpc == <<Plain("*RST\n"), Plain("*OPC?\n")>>
IsReset ==
    \/ last.on = "ESA" /\ last.op = "reset"
    \/ last.on = "FSUP50" /\ last.op = "rst"

(* C1: a reset of an FSUP50, through the facade or on the driver, writes   *)
(* exactly "*RST\n" and then exactly one "*OPC?\n" to the transport, and   *)
(* nothing else.  (The N9030A driver is not among the sources; the         *)
(* statement is made for the FSUP50.)                                      *)
C1_ResetWritesRstThenOpc ==
    (OnFSUP50 /\ IsReset) => last.sent = RstThenOpc

(* C2: constructing the facade with a driver name that is neither FSUP50   *)
(* nor N9030A fails with the error kind for unsupported drivers, which is  *)
(* not the kind raised when a recognised driver fails to construct, and    *)
(* nothing is written to the transport.                                    *)
UnsupportedDriverKinds == {"UnsupportedDriverError", "NotImplementedError"}
C2_UnknownDriverHasItsOwnError ==
    (last.on = "ESA" /\ last.op = "__init__")
        => /\ (last.args[1] \notin {"FSUP50", "N9030A"})
                => (last.out \in UnsupportedDriverKinds /\ last.sent = <<>>)
           /\ (last.args[1] \in {"FSUP50", "N9030A"} /\ last.out # "ok")
                => (last.out \notin UnsupportedDriverKinds)

(* C3: a set of start_frequency outside [0, 50e9], of video_bw outside     *)
(* [1, 10] or of resolution_bw outside [10, 50] on an FSUP50, through the  *)
(* facade or on the driver, fails with ValidationError and writes nothing  *)
(* to the transport: neither the set command nor the completion query.     *)
OutOfDeclaredRange ==
    \/ last.op = "set_start_frequency" /\ ~InRange(last.args[1], Hz(0), Num(50, 0, 0))
    \/ last.op = "set_video_bw" /\ ~InRange(last.args[1], Hz(1), Hz(10))
    \/ last.op = "set_resolution_bw" /\ ~InRange(last.args[1], Hz(10), Hz(50))

InDeclaredRange(attr, v) ==
    CASE attr = "start_frequency" -> InRange(v, Hz(0), Num(50, 0, 0))
      [] attr = "stop_frequency"  -> TRUE
      [] attr = "video_bw"        -> InRange(v, Hz(1), Hz(10))
      [] attr = "resolution_bw"   -> InRange(v, Hz(10), Hz(50))

SetOp == [start_frequency |-> "set_start_frequency", stop_frequency |-> "set_stop_frequency",
          video_bw |-> "set_video_bw", resolution_bw |-> "set_resolution_bw"]
GetOp == [start_frequency |-> "get_start_frequency", stop_frequency |-> "get_stop_frequency",
          video_bw |-> "get_video_bw", resolution_bw |-> "get_resolution_bw"]

C4_SetThenGetReturnsValue ==
    OnFSUP50 =>
        \A attr \in Attributes :
            /\ (last.op = SetOp[attr] /\ InDeclaredRange(attr, last.args[1]))
                    => last.out = "ok"
            /\ (last.op = GetOp[attr] /\ prev.op = SetOp[attr]
                    /\ InDeclaredRange(attr, prev.args[1]))
                    => /\ last.out = "ok"
                       /\ last.res.kind = "float"
                       /\ FormatF(last.res.num) = FormatF(prev.args[1])

(* C5: the facade's get_marker_amplitude(marker) and                       *)
(* set_move_marker_peak(marker) make exactly one driver call, to the       *)
(* method of the same name: with no argument when the facade wraps an      *)
(* FSUP50, with the marker unchanged when it wraps an N9030A; and          *)
(* get_marker_amplitude returns what that call returned.                   *)
C5_MarkerForwarding ==
    (last.on = "ESA" /\ last.op \in {"get_marker_amplitude", "set_move_marker_peak"})
        => /\ Len(last.calls) = 1
           /\ last.calls[1].method = last.op
           /\ last.calls[1].entered
           /\ last.calls[1].args = (IF OnFSUP50 THEN <<>> ELSE last.args)
           /\ (last.op = "get_marker_amplitude")
                => (last.out = last.calls[1].out /\ last.res = last.calls[1].res)

C5_Witness ==
    /\ OnFSUP50 /\ last.on = "ESA" /\ last.op = "get_marker_amplitude"
    /\ last.args = <<Hz(2)>>
    /\ Len(last.calls) = 1 /\ last.calls[1].args = <<>>
    /\ last.out = "ok" /\ last.res = TextRes(MarkerReply)
    /\ last.sent = <<Plain("CALC:MARK:Y?")>>

(* C6: constructing an FSUP50 on a four-field identity reply gives an      *)
(* instance whose vendor, model, serial and fw are fields 0, 1, 2 and 3;   *)
(* on a reply of fewer than four fields the construction fails with        *)
(* ParseError and the caller is left with no instance.                     *)
IdentityParsed(fields) ==
    /\ (Len(fields) = 4)
            => /\ last.out = "ok"
               /\ devh.vendor = fields[1] /\ devh.model = fields[2]
               /\ devh.serial = fields[3] /\ devh.fw = fields[4]
    /\ (Len(fields) < 4)
            => (last.out = "ParseError" /\ devh = NoInstance)

C6_IdentityParsing ==
    (last.on = "FSUP50" /\ last.op = "__init__")
        => IdentityParsed(split(last.args[1], ","))

(* C7: the facade's get_resolution_bw() on an FSUP50 puts exactly one      *)
(* "BAND?" query on the transport and returns the value read, not a        *)
(* callable.                                                               *)
C7_ResolutionBwReturnsValue ==
    (OnFSUP50 /\ last.on = "ESA" /\ last.op = "get_resolution_bw")
        => /\ last.out = "ok"
           /\ last.res.kind = "float"
           /\ last.sent = <<Plain("BAND?")>>

(* C8: reset() returns the instrument's answer to the "*OPC?" query.       *)
C8_ResetReturnsOpcAnswer ==
    (OnFSUP50 /\ IsReset)
        => /\ last.out = "ok"
           /\ last.res \in {TextRes(OpcReply), FloatRes(ParseFloat(OpcReply))}

(* C9: FSUP50.wait_to_complete reads the answer to its "*OPC?\n" query:    *)
(* after a completion wait or a property get on the driver no reply is     *)
(* left unread on the transport, and a get returns the answer to its own   *)
(* query.                                                                  *)
Getters == {GetOp[attr] : attr \in Attributes}
AttrOfGetter(op) == CHOOSE attr \in Attributes : GetOp[attr] = op

C9_HandshakeReadsItsReply ==
    (last.on = "FSUP50" /\ last.op \in Getters \cup {"wait_to_complete"} /\ last.out = "ok")
        => /\ pending = <<>>
           /\ (last.op \in Getters)
                => last.res = FloatRes(ParseFloat(inst[AttrOfGetter(last.op)]))

(* C10: on a facade that wraps an FSUP50, each of reset, wait_to_complete, *)
(* InitDevice, the frequency and bandwidth setters and getters,            *)
(* get_marker_frequency, get_sweeptime and set_sweep_single makes one      *)
(* driver call, to a method the FSUP50 has, with a number of arguments     *)
(* that method takes.                                                      *)
ForwardedOps ==
    { "reset", "wait_to_complete", "InitDevice",
      "set_start_frequency", "get_start_frequency",
      "set_stop_frequency", "get_stop_frequency",
      "set_center_frequency", "set_span_frequency",
      "set_video_bw", "get_video_bw", "set_resolution_bw", "get_resolution_bw",
      "get_marker_frequency", "get_sweeptime", "set_sweep_single" }

C10_ForwardedCallsAreAccepted ==
    (OnFSUP50 /\ last.on = "ESA" /\ last.op \in ForwardedOps)
        => (Len(last.calls) = 1 /\ last.calls[1].entered)

====
